---- MODULE Spec2Model ----
(***************************************************************************)
(* Model of the log monitoring pipeline of this repository.                *)
(*                                                                         *)
(* Two programs are modelled, selected by the variable `program`:          *)
(*   "log_system"   : log_system.py, the threaded pipeline (LogGenerator   *)
(*                    threads, LogAnalyzer.process_logs drain thread,      *)
(*                    LogAnalyzer.start periodic analysis thread,          *)
(*                    MonitoringDashboard.process_queues consumer);        *)
(*   "log_analyzer" : log_producer.py + log_analyzer.py, the process       *)
(*                    pipeline (log_producer processes, one log_analyzer   *)
(*                    loop).                                               *)
(*                                                                         *)
(* A log entry is the record [device_id, log_level, timestamp]; the        *)
(* timestamp is the index of the entry among the entries of its producer   *)
(* (the wall clock of the source only serves to tell entries apart) and    *)
(* the free-text message is left out.  Ratios count/total are kept exact,  *)
(* as integers in units of 1/RatioScale.                                   *)
(*                                                                         *)
(* Spec is the two programs as the repository starts them.  The other      *)
(* specifications add one thing each: SpecOpen a producer of an unlisted   *)
(* device id, SpecFault a producer of entries without a level, SpecConfig  *)
(* an edited alert threshold, SpecShutdown a shutdown request, SpecReplay  *)
(* a restart that replays the same entries; SpecSnapshot splits the        *)
(* iteration of analyze_logs into the copy of the history and the          *)
(* computation on the copy.                                                *)
(***************************************************************************)
EXTENDS Integers, Sequences, FiniteSets

\* ------------------------------------------------------------------ bounds
\* CONFIG['analysis_window'] (log_system.py:20) and N (log_analyzer.py:5),
\* scaled down: capacity of a device history.
analysis_window == 2

\* CONFIG['alert_window'] (log_system.py:23) and S (log_analyzer.py:7),
\* scaled down: capacity of a device alert window, in analysis cycles.
alert_window == 2

\* Number of analysis cycles explored.
MaxCycles == 4

\* Entries the producers put on the ingestion queue altogether.
MaxLogs == 3

\* --------------------------------------------------------------- constants
\* CONFIG['alert_threshold'] = 0.5 as the fraction ThresholdNum/ThresholdDen.
ThresholdNum == 1
ThresholdDen == 2

\* log_analyzer.py:48 keeps the last int(S * 10) entries for the alert test.
LogsPerSecond == 10

\* CONFIG['device_ids'] / DEVICE_IDS, in iteration order (the first two ids).
device_ids == <<"device1", "device2">>

\* An id no per-device state exists for in LogAnalyzer.__init__.
ForeignId == "device9"

log_levels == {"INFO", "WARN", "ERROR"}

DeviceSet == {device_ids[i] : i \in 1..Len(device_ids)}

NoLog == [device_id |-> "none", log_level |-> "none", timestamp |-> 0]

\* The log_level of an entry whose dict has no 'log_level' key.
NoLevel == "absent"

VARIABLES
    program,        \* which script runs
    produced,       \* per producer: number of entries put so far
    log_queue,      \* the ingestion queue
    logs_cache,     \* LogAnalyzer.logs_cache
    device_status,  \* LogAnalyzer.device_status
    alert_windows,  \* LogAnalyzer.alert_windows
    cursor,         \* analyze_logs: index of the next device, 0 between cycles
    cycles,         \* analysis cycles started so far
    analysis_queue, \* analysis results not yet consumed
    alert_queue,    \* alerts not yet consumed
    device_logs,    \* log_analyzer: device_logs
    device_order,   \* log_analyzer: key order of device_logs
    pc,             \* log_analyzer: position in the loop body
    taken,          \* history: per device, the entries taken from the queue
    since_alert,    \* history: data cycles since the device's last alert,
                    \*          counted up to alert_window
    alerts_put,     \* history: per device, alerts put on alert_queue
    last_count,     \* history: per device, alert_count of its last result
    avail,          \* history: queue length when the loop iteration began
    moved,          \* history: entries the loop iteration took from the queue
    ratios,         \* history: per device, the error ratios pushed since its
                    \*          last alert, the last alert_window + 1 of them
    alert_threshold,\* CONFIG['alert_threshold'] as a fraction num/den
    alive,          \* the analysis thread has not died of an exception
    local_logs,     \* analyze_logs: the local `logs` of line 89
    shutdown,       \* a shutdown request and what had run when it was made
    run,            \* 1, or 2 after a restart that replays the same entries
    first_out       \* what the run before the restart had published

inputVars == <<produced, log_queue>>
systemVars == <<logs_cache, device_status, alert_windows, cursor>>
analyzerVars == <<device_logs, device_order, pc, avail, moved>>
outputVars == <<analysis_queue, alert_queue>>
alertHistory == <<since_alert, alerts_put, last_count, ratios>>
replayVars == <<run, first_out>>
extraVars == <<alert_threshold, alive, local_logs, shutdown, replayVars>>

vars == <<program, inputVars, systemVars, analyzerVars, outputVars,
          alertHistory, cycles, taken, extraVars>>

\* ----------------------------------------------------------------- helpers
Min(a, b) == IF a <= b THEN a ELSE b

RECURSIVE Gcd(_, _)
Gcd(a, b) == IF b = 0 THEN a ELSE Gcd(b, a % b)

RECURSIVE LcmUpTo(_)
LcmUpTo(n) == IF n <= 1 THEN 1
              ELSE LET m == LcmUpTo(n - 1) IN (m * n) \div Gcd(m, n)

\* Every total in 1..analysis_window divides RatioScale, so count/total is
\* the integer (count * RatioScale) \div total in units of 1/RatioScale.
RatioScale == LcmUpTo(analysis_window)

RECURSIVE SumSeq(_)
SumSeq(s) == IF s = <<>> THEN 0 ELSE Head(s) + SumSeq(Tail(s))

RECURSIVE SumOver(_, _)
SumOver(f, S) == IF S = {} THEN 0
                 ELSE LET x == CHOOSE y \in S : TRUE
                      IN  f[x] + SumOver(f, S \ {x})

IsLevel(e, level) == e.log_level = level

CountLevel(logs, level) ==
    Len(SelectSeq(logs, LAMBDA e : IsLevel(e, level)))

\* list(d)[-n:] for n > 0.
LastN(s, n) ==
    IF Len(s) <= n THEN s ELSE SubSeq(s, Len(s) - n + 1, Len(s))

\* Faulty variant of DequeAppend: appendleft, the newest element comes first
\* and the last one leaves a full deque.
DequeAppendLeft(dq, x, maxlen) ==
    IF maxlen = 0 THEN <<>>
    ELSE IF Len(dq) < maxlen THEN <<x>> \o dq
    ELSE <<x>> \o SubSeq(dq, 1, maxlen - 1)

\* Faulty variant of DequeAppend: an unbounded list.
DequeAppendNoEvict(dq, x, maxlen) == Append(dq, x)

\* Faulty variant of DequeAppend: a full deque refuses the new element.
DequeAppendDropNewest(dq, x, maxlen) ==
    IF Len(dq) < maxlen THEN Append(dq, x) ELSE dq

\* collections.deque(maxlen=n).append(x): the oldest element leaves a full
\* deque.
DequeAppend(dq, x, maxlen) ==
    IF maxlen = 0 THEN <<>>
    ELSE IF Len(dq) < maxlen THEN Append(dq, x)
    ELSE Append(Tail(dq), x)

\* generate_log: the entry a producer of device d builds as its k-th.
generate_log(d, level, k) ==
    [device_id |-> d, log_level |-> level, timestamp |-> k]

\* ------------------------------------------------------------------- Init
Producers == DeviceSet \cup {ForeignId}

TotalProduced == SumOver(produced, Producers)

\* The local `logs` before the first cycle.
NoSnapshot == [cycle |-> 0, at |-> 0, list |-> <<>>, stale |-> FALSE]

\* Entries the drain has taken from the queue altogether.
TotalTaken == SumOver([d \in Producers |-> Len(taken[d])], Producers)

NoShutdown == [raised |-> FALSE, produced |-> [d \in Producers |-> 0],
               taken |-> 0, cycles |-> 0]

NoOutput == [results |-> <<>>, alerts |-> <<>>, cycles |-> 0]

\* The state after construction (the module's queues, LogAnalyzer.__init__,
\* the empty device_logs of log_analyzer) under the given alert threshold.
Startup(threshold) ==
    /\ program \in {"log_system", "log_analyzer"}
    /\ alert_threshold = threshold
    /\ produced = [d \in Producers |-> 0]
    /\ log_queue = <<>>
    /\ logs_cache = [d \in DeviceSet |-> <<>>]
    /\ device_status = [d \in DeviceSet |-> [last_error |-> NoLog, alerts |-> <<>>]]
    /\ alert_windows = [d \in DeviceSet |-> <<>>]
    /\ cursor = 0
    /\ cycles = 0
    /\ analysis_queue = <<>>
    /\ alert_queue = <<>>
    /\ device_logs = [d \in {} |-> <<>>]
    /\ device_order = <<>>
    /\ pc = "drain"
    /\ taken = [d \in Producers |-> <<>>]
    /\ since_alert = [d \in DeviceSet |-> alert_window]  \* no alert yet
    /\ alerts_put = [d \in DeviceSet |-> 0]
    /\ last_count = [d \in DeviceSet |-> 0]
    /\ avail = 0
    /\ moved = 0
    /\ ratios = [d \in DeviceSet |-> <<>>]
    /\ alive = TRUE
    /\ local_logs = NoSnapshot
    /\ shutdown = NoShutdown
    /\ run = 1
    /\ first_out = NoOutput

\* CONFIG as the file has it.
Init == Startup([num |-> ThresholdNum, den |-> ThresholdDen])

\* ------------------------------------------------ log_system.py: producers
\* One iteration of a producer loop: generate_log, then put on the queue.
PutLog(d) ==
    /\ TotalProduced < MaxLogs
    /\ \E level \in log_levels :
          log_queue' = Append(log_queue, generate_log(d, level, produced[d] + 1))
    /\ produced' = [produced EXCEPT ![d] = @ + 1]
    /\ UNCHANGED <<program, systemVars, analyzerVars, outputVars,
                   alertHistory, cycles, taken, extraVars>>

\* LogGenerator.publish_log, for a generator main() starts.
publish_log(d) ==
    /\ program = "log_system"
    /\ PutLog(d)

\* --------------------------------------- log_system.py: the drain thread
\* Faulty variant of CacheAppend: the entry's device id is not looked at.
CacheAppendFirstDevice(cache, e) ==
    [cache EXCEPT ![device_ids[1]] = DequeAppend(@, e, analysis_window)]

\* The cache after lines 140-143 for the entry e: the append, or the KeyError
\* of an id that is no key of logs_cache, swallowed by the bare except.
CacheAppend(cache, e) ==
    IF e.device_id \in DOMAIN cache
    THEN [cache EXCEPT ![e.device_id] = DequeAppend(@, e, analysis_window)]
    ELSE cache

\* LogAnalyzer.process_logs, one iteration on a non-empty queue (on an empty
\* one get_nowait raises, the thread sleeps and nothing changes).  The entry
\* is held by this thread alone between lines 139 and 141.
process_logs ==
    /\ program = "log_system"
    /\ log_queue # <<>>
    /\ LET log == Head(log_queue)
       IN  /\ log_queue' = Tail(log_queue)
           /\ logs_cache' = CacheAppend(logs_cache, log)
           /\ taken' = [taken EXCEPT ![log.device_id] = Append(@, log)]
    /\ UNCHANGED <<program, produced, device_status, alert_windows, cursor,
                   analyzerVars, outputVars, alertHistory, cycles, extraVars>>

\* ------------------------------------- log_system.py: the analysis thread
\* Faulty variant of ErrorRatio: the count is divided by the capacity of the
\* history, not by the number of entries it holds.
ErrorRatioOfCapacity(logs) ==
    (CountLevel(logs, "ERROR") * RatioScale) \div analysis_window

\* analyze_logs lines 94-99: the ratios of one snapshot, in units of
\* 1/RatioScale.
ErrorRatio(logs) == (CountLevel(logs, "ERROR") * RatioScale) \div Len(logs)

WarnRatio(logs) == (CountLevel(logs, "WARN") * RatioScale) \div Len(logs)

\* Faulty variant of LastError: a snapshot without ERROR erases the value.
LastErrorNotSticky(logs, stored) ==
    LET error_logs == SelectSeq(logs, LAMBDA e : IsLevel(e, "ERROR"))
    IN  IF error_logs # <<>> THEN error_logs[Len(error_logs)] ELSE NoLog

\* Lines 102-104: the newest ERROR entry of the snapshot, else the stored one.
LastError(logs, stored) ==
    LET error_logs == SelectSeq(logs, LAMBDA e : IsLevel(e, "ERROR"))
    IN  IF error_logs # <<>> THEN error_logs[Len(error_logs)] ELSE stored

\* Faulty variant of Breach: >= in place of >.
BreachAtOrAbove(window) ==
    /\ Len(window) = alert_window
    /\ SumSeq(window) * alert_threshold.den
          >= alert_threshold.num * alert_window * RatioScale

\* Lines 108-110 on the window after the append of line 107:
\* sum(window) / alert_window > alert_threshold.
Breach(window) ==
    /\ Len(window) = alert_window
    /\ SumSeq(window) * alert_threshold.den
          > alert_threshold.num * alert_window * RatioScale

\* Faulty variant of WindowAfterAlert: the window is not cleared.
WindowKept(window) == window

\* Line 121: the window an alert leaves behind.
WindowAfterAlert(window) == <<>>

\* Lines 111-116.
MakeAlert(d) ==
    [device_id |-> d, severity |-> "CRITICAL"]

\* Faulty variant of ResultStatus: the alerts are counted before this
\* cycle's alert is recorded.
ResultStatusBefore(before, after) == [after EXCEPT !.alerts = before.alerts]

\* Lines 117-130: the result is built from the status as the alert
\* bookkeeping of this cycle left it.
ResultStatus(before, after) == after

\* Lines 124-131.
MakeResult(d, logs, status) ==
    [device_id |-> d,
     error_ratio |-> ErrorRatio(logs), warn_ratio |-> WarnRatio(logs),
     last_error |-> status.last_error, alert_count |-> Len(status.alerts)]

\* Faulty variant of CycleIdle: a timer starts a cycle whether or not the
\* previous call has returned.
CycleIdleAlways == TRUE

\* LogAnalyzer.start lines 153-155: the one analysis thread calls
\* analyze_logs() in its loop and sleeps again only after the call returned.
CycleIdle == cursor = 0

\* LogAnalyzer.start lines 153-155: the sleep ends and analyze_logs is
\* called.  The consumer has emptied both output channels by then.
start_cycle ==
    /\ program = "log_system"
    /\ alive
    /\ CycleIdle
    /\ cycles < MaxCycles
    /\ analysis_queue = <<>>
    /\ alert_queue = <<>>
    /\ cursor' = 1
    /\ cycles' = cycles + 1
    /\ UNCHANGED <<program, inputVars, logs_cache, device_status,
                   alert_windows, analyzerVars, outputVars, alertHistory,
                   taken, extraVars>>

NextCursor == IF cursor = Len(device_ids) THEN 0 ELSE cursor + 1

\* Faulty variant of HasNoData: a history of one entry is skipped too.
HasNoDataShort(snapshot) == Len(snapshot) <= 1

\* Lines 90-91: `if not logs: continue`.
HasNoData(snapshot) == snapshot = <<>>

\* Lines 95-96 read log['log_level'] of every entry of the snapshot: an entry
\* without that key raises KeyError.
Malformed(snapshot) ==
    \E i \in 1..Len(snapshot) : snapshot[i].log_level = NoLevel

\* analyze_logs lines 90-133 for one device and the snapshot of its history.
\* Nothing in analyze_logs or in the loop of start catches an exception: the
\* KeyError of line 95 ends the analysis thread.
AnalyzeDevice(device_id, snapshot) ==
    IF HasNoData(snapshot)
    THEN /\ cursor' = NextCursor
         /\ UNCHANGED <<device_status, alert_windows, outputVars,
                        alertHistory, alive>>
    ELSE IF Malformed(snapshot)
    THEN /\ alive' = FALSE
         /\ UNCHANGED <<cursor, device_status, alert_windows, outputVars,
                        alertHistory>>
    ELSE
      LET before == device_status[device_id]
          window == DequeAppend(alert_windows[device_id],
                                ErrorRatio(snapshot), alert_window)
          raised == Breach(window)
          alert == MakeAlert(device_id)
          after == [last_error |-> LastError(snapshot, before.last_error),
                    alerts |-> IF raised THEN Append(before.alerts, alert)
                               ELSE before.alerts]
          result == MakeResult(device_id, snapshot,
                       ResultStatus(before, after))
      IN  /\ cursor' = NextCursor
          /\ device_status' = [device_status EXCEPT ![device_id] = after]
          /\ alert_windows' = [alert_windows EXCEPT ![device_id] =
                                 IF raised THEN WindowAfterAlert(window)
                                 ELSE window]
          /\ alert_queue' = IF raised THEN Append(alert_queue, alert)
                            ELSE alert_queue
          /\ analysis_queue' = Append(analysis_queue, result)
          /\ alerts_put' = [alerts_put EXCEPT ![device_id] =
                              IF raised THEN @ + 1 ELSE @]
          /\ since_alert' = [since_alert EXCEPT ![device_id] =
                               IF raised THEN 0
                               ELSE Min(@ + 1, alert_window)]
          /\ last_count' = [last_count EXCEPT ![device_id] =
                              result.alert_count]
          /\ ratios' = [ratios EXCEPT ![device_id] =
                          IF raised THEN <<>>
                          ELSE LastN(Append(@, result.error_ratio),
                                     alert_window + 1)]
          /\ UNCHANGED alive

\* analyze_logs, one iteration of the loop of line 88, for device_ids[cursor]:
\* the snapshot of line 89 and everything computed from it.
analyze_logs ==
    /\ program = "log_system"
    /\ alive
    /\ cursor >= 1
    /\ AnalyzeDevice(device_ids[cursor], logs_cache[device_ids[cursor]])
    /\ UNCHANGED <<program, inputVars, logs_cache, analyzerVars, cycles,
                   taken, alert_threshold, local_logs, shutdown, replayVars>>

\* MonitoringDashboard.process_queues, lines 180-208, iterated until both
\* channels are empty, while the analysis thread sleeps.
process_queues ==
    /\ program = "log_system"
    /\ cursor = 0
    /\ analysis_queue # <<>> \/ alert_queue # <<>>
    /\ analysis_queue' = <<>>
    /\ alert_queue' = <<>>
    /\ UNCHANGED <<program, inputVars, systemVars, analyzerVars,
                   alertHistory, cycles, taken, extraVars>>

\* ------------------------------------------ log_producer.py: producers
\* log_producer, one iteration of its loop.
log_producer(d) ==
    /\ program = "log_analyzer"
    /\ PutLog(d)

\* ------------------------------------------- log_analyzer.py: the loop
\* Lines 19-21: the history of the entry's device, created on first sight.
LogsAppend(logs_by_device, e) ==
    [d \in DOMAIN logs_by_device \cup {e.device_id} |->
        IF d = e.device_id
        THEN DequeAppend(IF d \in DOMAIN logs_by_device
                         THEN logs_by_device[d] ELSE <<>>,
                         e, analysis_window)
        ELSE logs_by_device[d]]

\* Lines 15-21: at most one entry leaves the queue per loop iteration.
log_analyzer_get ==
    /\ program = "log_analyzer"
    /\ pc = "drain"
    /\ cycles < MaxCycles
    /\ avail' = Len(log_queue)
    /\ IF log_queue # <<>>
       THEN LET log == Head(log_queue)
            IN  /\ log_queue' = Tail(log_queue)
                /\ device_logs' = LogsAppend(device_logs, log)
                /\ device_order' = IF log.device_id \in DOMAIN device_logs
                                   THEN device_order
                                   ELSE Append(device_order, log.device_id)
                /\ taken' = [taken EXCEPT ![log.device_id] = Append(@, log)]
                /\ moved' = 1
       ELSE /\ moved' = 0
            /\ UNCHANGED <<log_queue, device_logs, device_order, taken>>
    /\ pc' = "analyze"
    /\ UNCHANGED <<program, produced, systemVars, outputVars, alertHistory,
                   cycles, extraVars>>

\* Line 36: the newest ERROR entry of the history, or None.
NewestError(logs) == LastError(logs, NoLog)

\* Lines 39-45.
AnalyzerResult(d, logs) ==
    [device_id |-> d, error_ratio |-> ErrorRatio(logs),
     warn_ratio |-> WarnRatio(logs), last_error |-> NewestError(logs)]

\* Lines 48-50: more than half of the last int(S * 10) entries are ERROR.
RecentBreach(logs) ==
    LET recent_logs == LastN(logs, alert_window * LogsPerSecond)
    IN  /\ Len(recent_logs) > 0
        /\ CountLevel(recent_logs, "ERROR") * ThresholdDen
              > ThresholdNum * Len(recent_logs)

\* Lines 24-55: the sleep, then the loop over device_logs.items().  The
\* consumer has emptied both output channels by then.
log_analyzer_cycle ==
    /\ program = "log_analyzer"
    /\ pc = "analyze"
    /\ analysis_queue = <<>>
    /\ alert_queue = <<>>
    /\ LET with_data == SelectSeq(device_order, LAMBDA d : device_logs[d] # <<>>)
           breached == SelectSeq(with_data, LAMBDA d : RecentBreach(device_logs[d]))
           Has(seq, d) == \E i \in 1..Len(seq) : seq[i] = d
       IN  /\ analysis_queue' = [i \in 1..Len(with_data) |->
                                   AnalyzerResult(with_data[i], device_logs[with_data[i]])]
           /\ alert_queue' = [i \in 1..Len(breached) |-> [device_id |-> breached[i]]]
           /\ alerts_put' = [d \in DeviceSet |->
                               IF Has(breached, d) THEN alerts_put[d] + 1
                               ELSE alerts_put[d]]
           /\ since_alert' = [d \in DeviceSet |->
                                IF Has(breached, d) THEN 0
                                ELSE IF Has(with_data, d)
                                     THEN Min(since_alert[d] + 1, alert_window)
                                     ELSE since_alert[d]]
    /\ pc' = "drain"
    /\ cycles' = cycles + 1
    /\ UNCHANGED <<program, inputVars, systemVars, device_logs, device_order,
                   avail, moved, last_count, ratios, taken, extraVars>>

\* LogVisualizer.update_plot, lines 28-40: both channels are read empty.
update_plot ==
    /\ program = "log_analyzer"
    /\ analysis_queue # <<>> \/ alert_queue # <<>>
    /\ analysis_queue' = <<>>
    /\ alert_queue' = <<>>
    /\ UNCHANGED <<program, inputVars, systemVars, analyzerVars,
                   alertHistory, cycles, taken, extraVars>>

SystemNext ==
    \/ \E d \in DeviceSet : publish_log(d)
    \/ process_logs
    \/ start_cycle
    \/ analyze_logs
    \/ process_queues

AnalyzerNext ==
    \/ \E d \in DeviceSet : log_producer(d)
    \/ log_analyzer_get
    \/ log_analyzer_cycle
    \/ update_plot

Next == SystemNext \/ AnalyzerNext

Spec == Init /\ [][Next]_vars

\* The pipeline of log_system.py with one more producer on the module's
\* global log_queue, for a device id that CONFIG['device_ids'] does not list.
foreign_publish_log ==
    /\ program = "log_system"
    /\ PutLog(ForeignId)

OpenNext == Next \/ foreign_publish_log

SpecOpen == Init /\ [][OpenNext]_vars

\* log_system.py run, stopped and started again (main builds fresh queues
\* and a fresh LogAnalyzer), with the generator of the first device putting
\* the same entries in the same order on the new queue.  No dashboard reads
\* the output channels, so that they hold everything a run has published;
\* the runs go as far as their first cycle with data.
reset_replay ==
    /\ program = "log_system"
    /\ run = 1
    /\ alive
    /\ cursor = 0
    /\ log_queue = <<>>
    /\ produced[device_ids[1]] >= 1
    /\ \A d \in Producers \ {device_ids[1]} : produced[d] = 0
    /\ run' = 2
    /\ first_out' = [results |-> analysis_queue, alerts |-> alert_queue,
                     cycles |-> cycles]
    /\ log_queue' = taken[device_ids[1]]
    /\ taken' = [d \in Producers |-> <<>>]
    /\ logs_cache' = [d \in DeviceSet |-> <<>>]
    /\ device_status' = [d \in DeviceSet |->
                           [last_error |-> NoLog, alerts |-> <<>>]]
    /\ alert_windows' = [d \in DeviceSet |-> <<>>]
    /\ cycles' = 0
    /\ analysis_queue' = <<>>
    /\ alert_queue' = <<>>
    /\ since_alert' = [d \in DeviceSet |-> alert_window]
    /\ alerts_put' = [d \in DeviceSet |-> 0]
    /\ last_count' = [d \in DeviceSet |-> 0]
    /\ ratios' = [d \in DeviceSet |-> <<>>]
    /\ UNCHANGED <<program, produced, cursor, analyzerVars, alert_threshold,
                   alive, local_logs, shutdown>>

first_publish_log == run = 1 /\ \E d \in DeviceSet : publish_log(d)

ReplayNext ==
    \/ first_publish_log
    \/ process_logs
    \/ start_cycle
    \/ analyze_logs
    \/ reset_replay

SpecReplay == Init /\ [][ReplayNext]_vars

\* A shutdown is requested: Ctrl-C reaches main (log_system.py lines
\* 275-279), or the parent process of log_producer.py / log_analyzer.py is
\* told to stop.  The loops of the tasks are `while True` and read no flag or
\* event, so the request changes nothing a task looks at; the record keeps
\* how far each task had come when it was made.
request_shutdown ==
    /\ ~shutdown.raised
    /\ shutdown' = [raised |-> TRUE, produced |-> produced,
                    taken |-> TotalTaken, cycles |-> cycles]
    /\ UNCHANGED <<program, inputVars, systemVars, analyzerVars, outputVars,
                   alertHistory, cycles, taken, alert_threshold, alive,
                   local_logs, replayVars>>

ShutdownNext == Next \/ request_shutdown

SpecShutdown == Init /\ [][ShutdownNext]_vars

\* log_system.py started with CONFIG['alert_threshold'] edited: the file's
\* 0.5, and 1.5 and 0, which lie outside (0, 1).  Nothing between the CONFIG
\* dict and the first loop iteration looks at the value.
Thresholds ==
    {[num |-> ThresholdNum, den |-> ThresholdDen],
     [num |-> 3, den |-> 2],
     [num |-> 0, den |-> 1]}

ConfigInit == \E threshold \in Thresholds : Startup(threshold)

SpecConfig == ConfigInit /\ [][Next]_vars

\* The pipeline of log_system.py with one more producer on the module's
\* global log_queue, whose entries are dicts without a 'log_level' key.
malformed_put ==
    /\ program = "log_system"
    /\ TotalProduced < MaxLogs
    /\ \E d \in DeviceSet :
          /\ log_queue' = Append(log_queue,
                                 generate_log(d, NoLevel, produced[d] + 1))
          /\ produced' = [produced EXCEPT ![d] = @ + 1]
    /\ UNCHANGED <<program, systemVars, analyzerVars, outputVars,
                   alertHistory, cycles, taken, extraVars>>

FaultNext == Next \/ malformed_put

SpecFault == Init /\ [][FaultNext]_vars

\* log_system.py with the iteration of analyze_logs for one device in two
\* steps, so that the drain thread can append between the copy of line 89
\* and the computation on it.

\* Faulty variant of SnapshotView: `logs` is the deque itself, not a copy.
SnapshotAlias(copied, live) == live

\* Line 89: `logs = list(self.logs_cache[device_id])`; lines 90-131 read
\* the local list only, whatever the deque has become.
SnapshotView(copied, live) == copied

\* Line 89, for device_ids[cursor].
snapshot_logs ==
    /\ program = "log_system"
    /\ alive
    /\ cursor >= 1
    /\ ~(local_logs.cycle = cycles /\ local_logs.at = cursor)
    /\ local_logs' = [cycle |-> cycles, at |-> cursor,
                      list |-> logs_cache[device_ids[cursor]],
                      stale |-> FALSE]
    /\ UNCHANGED <<program, inputVars, systemVars, analyzerVars, outputVars,
                   alertHistory, cycles, taken, alert_threshold, alive,
                   shutdown, replayVars>>

\* Lines 90-133 on the local list; stale records whether the deque had
\* changed by then.
compute_logs ==
    /\ program = "log_system"
    /\ alive
    /\ cursor >= 1
    /\ local_logs.cycle = cycles
    /\ local_logs.at = cursor
    /\ AnalyzeDevice(device_ids[cursor],
                     SnapshotView(local_logs.list,
                                  logs_cache[device_ids[cursor]]))
    /\ local_logs' = [local_logs EXCEPT
                        !.stale = (local_logs.list
                                     # logs_cache[device_ids[cursor]])]
    /\ UNCHANGED <<program, inputVars, logs_cache, analyzerVars, cycles,
                   taken, alert_threshold, shutdown, replayVars>>

SnapshotNext ==
    \/ \E d \in DeviceSet : publish_log(d)
    \/ process_logs
    \/ start_cycle
    \/ snapshot_logs
    \/ compute_logs
    \/ process_queues

SpecSnapshot == Init /\ [][SnapshotNext]_vars

\* ================================================================ claims
\* The history of device d in the program that runs.
History(d) ==
    IF program = "log_system" THEN logs_cache[d]
    ELSE IF d \in DOMAIN device_logs THEN device_logs[d] ELSE <<>>

InSeq(seq, x) == \E i \in 1..Len(seq) : seq[i] = x

HasAlertFor(queue, d) == \E i \in 1..Len(queue) : queue[i].device_id = d

\* The step is one iteration of analyze_logs for a device with data.
DataCycleStep ==
    /\ program = "log_system"
    /\ cursor >= 1
    /\ cursor' # cursor
    /\ logs_cache[device_ids[cursor]] # <<>>

\* The alerts the step puts on the alert channel.
NewAlerts ==
    IF Len(alert_queue') > Len(alert_queue)
    THEN SubSeq(alert_queue', Len(alert_queue) + 1, Len(alert_queue'))
    ELSE <<>>

\* The mean of window w is strictly greater than the threshold.
MeanExceeds(w) ==
    /\ Len(w) > 0
    /\ SumSeq(w) * ThresholdDen > ThresholdNum * Len(w) * RatioScale

MeanEquals(w) ==
    /\ Len(w) > 0
    /\ SumSeq(w) * ThresholdDen = ThresholdNum * Len(w) * RatioScale

C2_AlertClearsWindow ==
    [][program = "log_system" =>
         \A d \in DeviceSet :
            HasAlertFor(NewAlerts, d) =>
               /\ alert_windows'[d] = <<>>
               /\ since_alert[d] + 1 >= alert_window]_vars

\* A second alert of a device is in the channel, and the other device, one
\* breaching cycle after its alert, has raised no second one.
C2_Witness ==
    /\ program = "log_system"
    /\ \E d, e \in DeviceSet :
         /\ d # e
         /\ alerts_put[d] = 2
         /\ HasAlertFor(alert_queue, d)
         /\ alerts_put[e] = 1
         /\ alert_windows[e] = <<RatioScale>>

\* C3: the history of every device holds at most analysis_window entries.
C3_HistoryBounded ==
    \A d \in DeviceSet : Len(History(d)) <= analysis_window

\* More entries of a device than a history holds have been drained, with an
\* analysis cycle run.
C3_Witness ==
    \E d \in DeviceSet :
       /\ Len(taken[d]) > analysis_window
       /\ Len(History(d)) = analysis_window
       /\ cycles >= 1

\* C4: the history of a device is, in order, the last min(k, analysis_window)
\* of the k entries of that device taken from the queue.
C4_HistoryIsLastTaken ==
    \A d \in DeviceSet : History(d) = LastN(taken[d], analysis_window)

\* The (analysis_window + 1)-th entry has been appended and the first one is
\* gone.
C4_Witness ==
    \E d \in DeviceSet :
       /\ Len(taken[d]) = analysis_window + 1
       /\ ~InSeq(History(d), taken[d][1])
       /\ History(d)[1] = taken[d][2]

\* C5: in log_system.py, the last_error of a result is the newest ERROR
\* entry of the snapshot when there is one and the stored value otherwise,
\* it is what the device status keeps, and it is not empty once the stored
\* value is not.
C5_LastErrorSticky ==
    [][DataCycleStep =>
         LET d == device_ids[cursor]
             logs == logs_cache[d]
             stored == device_status[d].last_error
             r == analysis_queue'[Len(analysis_queue')]
         IN  /\ CountLevel(logs, "ERROR") > 0 =>
                   \E i \in 1..Len(logs) :
                      /\ r.last_error = logs[i]
                      /\ IsLevel(logs[i], "ERROR")
                      /\ \A j \in (i + 1)..Len(logs) : ~IsLevel(logs[j], "ERROR")
             /\ CountLevel(logs, "ERROR") = 0 => r.last_error = stored
             /\ stored # NoLog => r.last_error # NoLog
             /\ device_status'[d].last_error = r.last_error]_vars

\* A result computed from a snapshot without ERROR entries carries an ERROR
\* entry that has been evicted from the history.
C5_Witness ==
    /\ program = "log_system"
    /\ \E i \in 1..Len(analysis_queue) :
         LET r == analysis_queue[i]
         IN  /\ r.error_ratio = 0
             /\ r.last_error # NoLog
             /\ InSeq(taken[r.device_id], r.last_error)
             /\ ~InSeq(logs_cache[r.device_id], r.last_error)
             /\ Len(taken[r.device_id]) > analysis_window

\* C6: in log_system.py, a device whose entries were taken from the queue
\* has a history, and that history holds the last taken entries.
C6_UnknownDeviceGetsHistory ==
    program = "log_system" =>
       \A d \in Producers :
          taken[d] # <<>> =>
             /\ d \in DOMAIN logs_cache
             /\ logs_cache[d] = LastN(taken[d], analysis_window)

\* C7: once the queue is empty the history of each device holds
\* min(M, analysis_window) entries, M being what its producer has put; a
\* history only ever holds entries of its own device.
C7_ProducersNotMixed ==
    /\ log_queue = <<>> =>
          \A d \in DeviceSet :
             Len(History(d)) = Min(produced[d], analysis_window)
    /\ \A d \in DeviceSet :
          \A i \in 1..Len(History(d)) : History(d)[i].device_id = d

\* Both producers have put entries, all of them drained by the threaded
\* analyzer, and a history is full.
C7_Witness ==
    /\ program = "log_system"
    /\ log_queue = <<>>
    /\ produced[device_ids[1]] = analysis_window
    /\ produced[device_ids[2]] >= 1
    /\ Len(logs_cache[device_ids[1]]) = analysis_window
    /\ Len(logs_cache[device_ids[2]]) = produced[device_ids[2]]

\* C8: in log_analyzer.py, a cycle that puts an alert for a device is at
\* least the alert_window-th cycle with data of that device since its
\* previous alert.
C8_OneAlertPerEpisode ==
    [][program = "log_analyzer" =>
         \A d \in DeviceSet :
            HasAlertFor(NewAlerts, d) =>
               since_alert[d] + 1 >= alert_window]_vars

\* C9: in log_analyzer.py, when the analysis step of an iteration runs,
\* every entry that was on the queue when the iteration began has been
\* moved to a history.
C9_DrainMovesAll ==
    (program = "log_analyzer" /\ pc = "analyze") => moved = avail

\* C10: in log_system.py, the alert_count of a published result is the
\* number of alerts put for its device so far, is not negative and is not
\* below the alert_count of the device's previous result.
C10_AlertCountCumulative ==
    [][DataCycleStep =>
         LET d == device_ids[cursor]
             r == analysis_queue'[Len(analysis_queue')]
         IN  /\ r.alert_count = alerts_put'[d]
             /\ r.alert_count >= 0
             /\ r.alert_count >= last_count[d]]_vars

\* A result counts the alert raised in its own cycle.
C10_Witness ==
    /\ program = "log_system"
    /\ \E i \in 1..Len(analysis_queue) :
         LET r == analysis_queue[i]
         IN  /\ HasAlertFor(alert_queue, r.device_id)
             /\ r.alert_count = alerts_put[r.device_id]
             /\ r.alert_count >= 1

\* C11: log_system.py restarted with all state reset and fed the same
\* entries in the same order has, once it has drained them all and run as
\* many analysis cycles as the first run, published the same results and the
\* same alerts as the first run, however its drain steps and analysis ticks
\* interleave.
C11_ReplaySameOutput ==
    (/\ program = "log_system"
     /\ run = 2
     /\ log_queue = <<>>
     /\ cursor = 0
     /\ cycles = first_out.cycles)
       => /\ analysis_queue = first_out.results
          /\ alert_queue = first_out.alerts

\* C12: once a shutdown has been requested every task leaves its loop: a
\* producer, the drain and the analysis loop each complete at most the one
\* iteration that was in progress when the request was made.
C12_TasksStopAfterShutdown ==
    shutdown.raised =>
       /\ \A d \in Producers : produced[d] <= shutdown.produced[d] + 1
       /\ TotalTaken <= shutdown.taken + 1
       /\ cycles <= shutdown.cycles + 1

\* The fraction lies strictly between 0 and 1.
ValidThreshold(t) == 0 < t.num /\ t.num < t.den

\* C13: log_system.py started with an alert threshold outside (0, 1) is
\* rejected at startup: no entry is drained and no analysis cycle runs.
C13_InvalidConfigRejected ==
    (program = "log_system" /\ ~ValidThreshold(alert_threshold))
       => (TotalTaken = 0 /\ cycles = 0)

\* The number of entries of the given level in a list of entries.
NumberOf(entries, level) ==
    Cardinality({i \in 1..Len(entries) : entries[i].log_level = level})

\* C14: in log_system.py, the result of a cycle of a device with data has
\* error_ratio = #ERROR / total and warn_ratio = #WARN / total over the
\* total entries of the history, 1 <= total <= analysis_window; both lie in
\* [0, 1], together with #INFO / total they add up to 1, error_ratio is 1
\* for a history of ERROR entries only and 0 for one without any.
C14_RatiosOfHistory ==
    [][DataCycleStep =>
         LET entries == logs_cache[device_ids[cursor]]
             total == Len(entries)
             r == analysis_queue'[Len(analysis_queue')]
         IN  /\ 1 <= total /\ total <= analysis_window
             /\ r.error_ratio * total = NumberOf(entries, "ERROR") * RatioScale
             /\ r.warn_ratio * total = NumberOf(entries, "WARN") * RatioScale
             /\ 0 <= r.error_ratio /\ r.error_ratio <= RatioScale
             /\ 0 <= r.warn_ratio /\ r.warn_ratio <= RatioScale
             /\ (r.error_ratio + r.warn_ratio) * total
                   + NumberOf(entries, "INFO") * RatioScale
                = RatioScale * total
             /\ NumberOf(entries, "ERROR") = total => r.error_ratio = RatioScale
             /\ NumberOf(entries, "ERROR") = 0 => r.error_ratio = 0]_vars

\* One cycle has published a result with both ratios strictly between 0 and
\* 1 and a result with error_ratio 1.
C14_Witness ==
    /\ program = "log_system"
    /\ \E i, j \in 1..Len(analysis_queue) :
         /\ 0 < analysis_queue[i].error_ratio
         /\ analysis_queue[i].error_ratio < RatioScale
         /\ 0 < analysis_queue[i].warn_ratio
         /\ analysis_queue[i].warn_ratio < RatioScale
         /\ analysis_queue[j].error_ratio = RatioScale
         /\ analysis_queue[j].warn_ratio = 0

\* C15 as stated: in log_system.py, the result of a cycle is published
\* before the alert rule is evaluated, so that its alert_count is the number
\* of alerts the device had before the cycle and leaves out an alert raised
\* in the same cycle.
C15_ResultBeforeAlertRule ==
    [][DataCycleStep =>
         LET d == device_ids[cursor]
             r == analysis_queue'[Len(analysis_queue')]
         IN  r.alert_count = Len(device_status[d].alerts)]_vars

\* C15: in log_system.py, the alert rule of a cycle is evaluated before the
\* result of that cycle is built: the alert_count of the result is the
\* number of alerts the device had before the cycle plus the alert raised in
\* the same cycle, if any, which is the number the device status holds after
\* the cycle.
C15_ResultAfterAlertRule ==
    [][DataCycleStep =>
         LET d == device_ids[cursor]
             r == analysis_queue'[Len(analysis_queue')]
         IN  /\ r.alert_count
                  = Len(device_status[d].alerts)
                    + (IF HasAlertFor(NewAlerts, d) THEN 1 ELSE 0)
             /\ r.alert_count = Len(device_status'[d].alerts)]_vars

\* The cycle that raised the first alert of a device, and cleared its
\* window, has published a result with alert_count 1.
C15_Witness ==
    /\ program = "log_system"
    /\ \E i \in 1..Len(analysis_queue) :
         LET r == analysis_queue[i]
             d == r.device_id
         IN  /\ HasAlertFor(alert_queue, d)
             /\ alert_windows[d] = <<>>
             /\ since_alert[d] = 0
             /\ Len(device_status[d].alerts) = 1
             /\ r.alert_count = 1

\* C16: in log_system.py, the alert window of a device is at all times, in
\* order, the most recent min(k, alert_window) error ratios pushed for it
\* since its last alert (or since start), k being the number of its cycles
\* with data since then, and never holds more than alert_window samples; a
\* cycle that finds the window full and raises no alert leaves it full,
\* having evicted exactly the oldest sample to admit the newest.
C16_WindowIsRecentRatios ==
    [][program = "log_system" =>
         /\ \A d \in DeviceSet :
               /\ alert_windows'[d] = LastN(ratios'[d], alert_window)
               /\ Len(alert_windows'[d]) <= alert_window
         /\ DataCycleStep =>
               LET d == device_ids[cursor]
                   r == analysis_queue'[Len(analysis_queue')]
               IN  (Len(alert_windows[d]) = alert_window
                      /\ ~HasAlertFor(NewAlerts, d))
                     => alert_windows'[d]
                          = Append(Tail(alert_windows[d]), r.error_ratio)]_vars

\* A device has had alert_window + 1 cycles with data and no alert: its full
\* window has lost the first ratio, which differed from the second.
C16_Witness ==
    /\ program = "log_system"
    /\ \E d \in DeviceSet :
         /\ Len(ratios[d]) = alert_window + 1
         /\ ratios[d][1] # ratios[d][2]
         /\ alerts_put[d] = 0
         /\ Len(alert_windows[d]) = alert_window
         /\ alert_windows[d] = Tail(ratios[d])

\* C17: in log_system.py, the iteration of a cycle for a device with an
\* empty history publishes no result and no alert and leaves the alert
\* window, last_error and alerts of every device unchanged; the iteration
\* for a device with data publishes exactly one result, which is for that
\* device, pushes exactly one new sample into its alert window (which an
\* alert then clears) and leaves the windows and statuses of other devices
\* unchanged.  A cycle visits each device once, in order.
C17_EmptyHistorySkipped ==
    [][(program = "log_system" /\ cursor >= 1 /\ cursor' # cursor) =>
         LET d == device_ids[cursor]
             r == analysis_queue'[Len(analysis_queue')]
         IN  /\ cursor' = (IF cursor < Len(device_ids) THEN cursor + 1 ELSE 0)
             /\ \A e \in DeviceSet \ {d} :
                   /\ device_status'[e] = device_status[e]
                   /\ alert_windows'[e] = alert_windows[e]
             /\ logs_cache[d] = <<>> =>
                   /\ analysis_queue' = analysis_queue
                   /\ alert_queue' = alert_queue
                   /\ device_status'[d] = device_status[d]
                   /\ alert_windows'[d] = alert_windows[d]
             /\ logs_cache[d] # <<>> =>
                   /\ Len(analysis_queue') = Len(analysis_queue) + 1
                   /\ SubSeq(analysis_queue', 1, Len(analysis_queue))
                        = analysis_queue
                   /\ r.device_id = d
                   /\ IF HasAlertFor(NewAlerts, d)
                      THEN alert_windows'[d] = <<>>
                      ELSE /\ Len(alert_windows'[d])
                                = Min(Len(alert_windows[d]) + 1, alert_window)
                           /\ alert_windows'[d][Len(alert_windows'[d])]
                                = r.error_ratio]_vars

\* A finished cycle has skipped the first device, of which no entry was ever
\* drained, and has published one result, for the second device.
C17_Witness ==
    /\ program = "log_system"
    /\ cursor = 0
    /\ cycles = 1
    /\ taken[device_ids[1]] = <<>>
    /\ alert_windows[device_ids[1]] = <<>>
    /\ device_status[device_ids[1]] = [last_error |-> NoLog, alerts |-> <<>>]
    /\ Len(analysis_queue) = 1
    /\ analysis_queue[1].device_id = device_ids[2]
    /\ Len(alert_windows[device_ids[2]]) = 1

\* C18: in log_system.py, a failure while one device is analysed (an entry
\* without a level in its history) is confined to that device and cycle: it
\* does not end the analysis loop, which goes on to the remaining devices
\* and to later cycles.
C18_FailureConfined ==
    program = "log_system" => alive

\* C19: at most one analysis cycle is in progress at any time: a cycle
\* starts only when the previous one has finished, and a cycle finishes only
\* after its iteration for the last device.
C19_OneCycleAtATime ==
    [][/\ cycles' # cycles =>
             /\ cycles' = cycles + 1
             /\ program = "log_system" => (cursor = 0 /\ cursor' = 1)
             /\ program = "log_analyzer" => (pc = "analyze" /\ pc' = "drain")
       /\ (cursor # 0 /\ cursor' = 0) => cursor = Len(device_ids)]_vars

\* The second cycle is at its last device while entries put meanwhile wait
\* on the queue and the third cycle has not started.
C19_Witness ==
    /\ program = "log_system"
    /\ cycles = 2
    /\ cursor = Len(device_ids)
    /\ log_queue # <<>>

\* The step computes from the local list of a device with data.
ComputeStep ==
    /\ program = "log_system"
    /\ cursor >= 1
    /\ cursor' # cursor
    /\ local_logs.cycle = cycles
    /\ local_logs.at = cursor
    /\ local_logs.list # <<>>

\* C20: in log_system.py, with the drain thread appending while a cycle
\* runs, every result is computed from the one copy of the history taken at
\* the start of the device's iteration: its total, its ERROR count, its WARN
\* count and its last_error candidate are those of that same list, whatever
\* has been appended since, and ERROR count + WARN count <= total.
C20_OneSnapshot ==
    [][ComputeStep =>
         LET d == device_ids[cursor]
             entries == local_logs.list
             total == Len(entries)
             r == analysis_queue'[Len(analysis_queue')]
         IN  /\ Len(analysis_queue') = Len(analysis_queue) + 1
             /\ r.error_ratio * total = NumberOf(entries, "ERROR") * RatioScale
             /\ r.warn_ratio * total = NumberOf(entries, "WARN") * RatioScale
             /\ r.error_ratio + r.warn_ratio <= RatioScale
             /\ NumberOf(entries, "ERROR") + NumberOf(entries, "WARN") <= total
             /\ NumberOf(entries, "ERROR") > 0 =>
                   /\ InSeq(entries, r.last_error)
                   /\ IsLevel(r.last_error, "ERROR")
             /\ NumberOf(entries, "ERROR") = 0 =>
                   r.last_error = device_status[d].last_error]_vars

\* A result has been computed from a copy that the history no longer
\* equalled, the drain having appended in between; the history holds an
\* ERROR entry and the result counts none.
C20_Witness ==
    /\ program = "log_system"
    /\ local_logs.stale
    /\ local_logs.cycle = cycles
    /\ analysis_queue # <<>>
    /\ LET r == analysis_queue[Len(analysis_queue)]
           d == device_ids[local_logs.at]
       IN  /\ r.device_id = d
           /\ cursor # local_logs.at
           /\ r.error_ratio = 0
           /\ r.last_error = NoLog
           /\ CountLevel(logs_cache[d], "ERROR") > 0

====
